---- MODULE Spec2Model ----
(***************************************************************************)
(* The Coinbase adapter of openlimits (src/coinbase/mod.rs): construction  *)
(* of the adapter, the facade methods of ExchangeMarketData and            *)
(* ExchangeAccount for Exchange<Coinbase>, and the From / TryFrom          *)
(* conversions between the native (model::) types and the domain model.    *)
(*                                                                         *)
(* The methods take &self and the file keeps no state an invocation        *)
(* changes, so a behaviour is: new, then one facade invocation, whose      *)
(* request, adapter calls, native outcome and returned value are recorded. *)
(***************************************************************************)
EXTENDS Integers, Sequences, FiniteSets, TLC

VARIABLES
    pc,      \* "start", "ready" (adapter constructed), "done" (the invocation returned), "aborted" (panic)
    inner,   \* the Coinbase adapter held by Exchange<Coinbase>, None before construction
    op,      \* the public call made last
    req,     \* its request
    calls,   \* the adapter / transport calls it issued, in order
    native,  \* what the last of those calls returned
    ret      \* what the public call returned, or Panic

vars == <<pc, inner, op, req, calls, native, ret>>

(* ------------------------------ bounds --------------------------------- *)

\* Longest native list (orders, fills, accounts, candles, book side) returned.
MaxLen == 2
\* Largest cursor, price, size and time value drawn for requests and responses.
MaxVal == 2

(* ------------------------- Option and Result --------------------------- *)

None == [tag |-> "None"]
Some(x) == [tag |-> "Some", v |-> x]
Option(S) == {None} \cup {Some(x) : x \in S}

Ok(v) == [kind |-> "Ok", val |-> v]
Err(e) == [kind |-> "Err", err |-> e]
Panic == [kind |-> "Panic"]
\* A plain (non-Result) return value.
Value(v) == [kind |-> "Value", val |-> v]
NoCall == [kind |-> "NoCall"]
Call(f, a) == [fn |-> f, args |-> a]

\* Result::map, the closure given as a function f
ResultMap(r, f) == IF r.kind = "Ok" THEN Ok(f[r.val]) ELSE r

\* into_iter().map(Into::into).collect(), the conversion given as a function f
VecMap(v, f) == [i \in 1..Len(v) |-> f[v[i]]]

\* Sequences over S of length at most n.
SeqUpTo(S, n) == UNION {[1..k -> S] : k \in 0..n}

(* ------------------------------ values --------------------------------- *)

Vals == 1..MaxVal

MarketPairs == {"BTC-USD", "ETH-USD"}

\* The abstract intervals of the domain model; the match of TryFrom<Interval>
\* names six of them and sends every other one through its `_` arm.
SupportedIntervals ==
    {"OneMinute", "FiveMinutes", "FifteenMinutes", "OneHour", "SixHours", "OneDay"}
OtherIntervals ==
    {"ThreeMinutes", "ThirtyMinutes", "TwoHours", "FourHours", "EightHours",
     "TwelveHours", "ThreeDays", "OneWeek", "OneMonth"}
Interval == SupportedIntervals \cup OtherIntervals

\* Errors an adapter call (the transport behind it) can return.
AdapterErrors ==
    {"NetworkError", "ExchangeError", "DeserializationError", "AuthenticationError"}

\* Domain Paginator<Exchange<Coinbase>>: Pagination = u64.
Paginators ==
    [start_time : Option({1}), end_time : Option({1}),
     limit : Option(Vals), before : Option(Vals), after : Option(Vals)]

(* --------------------------- conversions ------------------------------- *)

\* A faulty variant: the `_` arm substitutes the one-minute granularity.
M_u32_try_from_Interval_default(value) ==
    CASE value = "FiveMinutes" -> Ok(300)
      [] value = "FifteenMinutes" -> Ok(900)
      [] value = "OneHour" -> Ok(3600)
      [] value = "SixHours" -> Ok(21600)
      [] value = "OneDay" -> Ok(86400)
      [] OTHER -> Ok(60)

\* impl TryFrom<Interval> for u32
u32_try_from_Interval(value) ==
    CASE value = "OneMinute" -> Ok(60)
      [] value = "FiveMinutes" -> Ok(300)
      [] value = "FifteenMinutes" -> Ok(900)
      [] value = "OneHour" -> Ok(3600)
      [] value = "SixHours" -> Ok(21600)
      [] value = "OneDay" -> Ok(86400)
      [] OTHER -> Err("MissingParameter")

\* shared::timestamp_to_naive_datetime, kept uninterpreted.
timestamp_to_naive_datetime(t) == [naive_datetime_of_millis |-> t]

\* impl From<Paginator<Exchange<Coinbase>>> for model::Paginator
model_Paginator_from(paginator) ==
    [after |-> paginator.after,
     before |-> paginator.before,
     limit |-> paginator.limit]

\* A faulty variant: after and before exchanged.
M_model_Paginator_from_ref_swapped(paginator) ==
    [after |-> paginator.before,
     before |-> paginator.after,
     limit |-> paginator.limit]

\* impl From<&Paginator<Exchange<Coinbase>>> for model::Paginator
model_Paginator_from_ref(paginator) ==
    [after |-> paginator.after,
     before |-> paginator.before,
     limit |-> paginator.limit]

\* impl From<Paginator<Exchange<Coinbase>>> for model::DateRange
model_DateRange_from(paginator) ==
    [start |-> IF paginator.start_time.tag = "Some"
               THEN Some(timestamp_to_naive_datetime(paginator.start_time.v))
               ELSE None,
     end |-> IF paginator.end_time.tag = "Some"
             THEN Some(timestamp_to_naive_datetime(paginator.end_time.v))
             ELSE None]

\* A faulty variant: a failed interval conversion is dropped (.ok()) instead of propagated (?).
M_CandleRequestParams_try_from_ok(params) ==
    LET granularity == u32_try_from_Interval(params.interval) IN
    Ok([daterange |-> IF params.paginator.tag = "Some"
                      THEN Some(model_DateRange_from(params.paginator.v))
                      ELSE None,
        granularity |-> IF granularity.kind = "Ok" THEN Some(granularity.val) ELSE None])

\* impl TryFrom<&GetHistoricRatesRequest<Exchange<Coinbase>>> for model::CandleRequestParams
CandleRequestParams_try_from(params) ==
    LET granularity == u32_try_from_Interval(params.interval) IN
    IF granularity.kind = "Err"
    THEN granularity
    ELSE Ok([daterange |-> IF params.paginator.tag = "Some"
                           THEN Some(model_DateRange_from(params.paginator.v))
                           ELSE None,
             granularity |-> Some(granularity.val)])

(* --------------------------- native values ----------------------------- *)

\* model::BookRecordL2 and model::Book<BookRecordL2>
BookRecords == {[price |-> p, size |-> 10 * p] : p \in Vals}
Books == [bids : SeqUpTo(BookRecords, MaxLen), asks : SeqUpTo(BookRecords, MaxLen)]

\* model::Ticker
NativeTickers == {[price |-> p] : p \in Vals}

\* model::Candle, time in seconds
NativeCandles ==
    {[time |-> t, low |-> 1, high |-> 4, open |-> 2, close |-> 3, volume |-> 5] : t \in Vals}

\* model::Account
NativeAccounts ==
    {[currency |-> c, available |-> 1, balance |-> 2] : c \in {"BTC", "USD"}}

\* model::OrderStatus and model::OrderSide
NativeOrderStatus == {"Active", "Done", "Open", "Pending", "Rejected"}
NativeOrderSide == {"Buy", "Sell"}

\* model::OrderType
NativeOrderTypes ==
    {[variant |-> "Limit", price |-> 3, size |-> 4, time_in_force |-> "GTC"],
     [variant |-> "Market", size |-> 4, funds |-> 5]}

\* model::Order; created_at is the DateTime's timestamp_millis()
NativeOrders ==
    [id : {"o1"}, product_id : {"BTC-USD"}, side : NativeOrderSide,
     status : NativeOrderStatus, _type : NativeOrderTypes, created_at : {1000}]

\* The orders drawn for list results.
NativeOrderSample ==
    {o \in NativeOrders :
        \/ o.status = "Done" /\ o.side = "Buy" /\ o._type.variant = "Limit"
        \/ o.status = "Open" /\ o.side = "Sell" /\ o._type.variant = "Market"
        \/ o.status = "Pending" /\ o.side = "Sell" /\ o._type.variant = "Limit"}

\* model::Fill; side and liquidity are strings on the wire
FillSides == {"buy", "sell", "hold"}
FillLiquidities == {"M", "T", "X"}
NativeFills ==
    [trade_id : {7}, order_id : {"o1"}, product_id : {"BTC-USD"}, price : {1},
     size : {2}, fee : {3}, side : FillSides, liquidity : FillLiquidities,
     created_at : {1000}]

OrderIds == {"o1", "o2"}

(* ----------------------- response conversions -------------------------- *)

\* impl From<model::BookRecordL2> for AskBid
AskBid_from(bids) == [price |-> bids.price, qty |-> bids.size]

\* A faulty variant: the two sides exchanged.
M_OrderBookResponse_from_swapped(book) ==
    [last_update_id |-> None,
     bids |-> VecMap(book.asks, [r \in BookRecords |-> AskBid_from(r)]),
     asks |-> VecMap(book.bids, [r \in BookRecords |-> AskBid_from(r)])]

\* impl From<model::Book<model::BookRecordL2>> for OrderBookResponse
OrderBookResponse_from(book) ==
    [last_update_id |-> None,
     bids |-> VecMap(book.bids, [r \in BookRecords |-> AskBid_from(r)]),
     asks |-> VecMap(book.asks, [r \in BookRecords |-> AskBid_from(r)])]

\* impl From<model::OrderSide> for Side
Side_from(s) ==
    CASE s = "Buy" -> "Buy"
      [] s = "Sell" -> "Sell"

\* A faulty variant: a wildcard arm in place of the Pending and Rejected arms.
M_OrderStatus_from_wildcard(s) ==
    CASE s = "Active" -> "Active"
      [] s = "Done" -> "Filled"
      [] s = "Open" -> "Open"
      [] OTHER -> "Canceled"

\* impl From<model::OrderStatus> for OrderStatus
OrderStatus_from(s) ==
    CASE s = "Active" -> "Active"
      [] s = "Done" -> "Filled"
      [] s = "Open" -> "Open"
      [] s = "Pending" -> "Pending"
      [] s = "Rejected" -> "Rejected"

\* `x as u64` of an i64: the value itself for the non-negative timestamps drawn
\* here (orders and fills are created after the epoch).
as_u64(x) == x

\* impl From<model::Order> for Order<Exchange<Coinbase>>
Order_from(order) ==
    LET t == order._type
        price == IF t.variant = "Limit" THEN Some(t.price) ELSE None
        size == t.size
        order_type == IF t.variant = "Limit" THEN "limit" ELSE "market"
    IN [id |-> order.id,
        market_pair |-> order.product_id,
        client_order_id |-> None,
        created_at |-> Some(as_u64(order.created_at)),
        price |-> price,
        size |-> size,
        side |-> Side_from(order.side),
        status |-> OrderStatus_from(order.status),
        order_type |-> order_type]

\* impl From<String> for OrderCanceled<Exchange<Coinbase>>
OrderCanceled_from(id) == [id |-> id]

\* impl From<model::Account> for Balance
Balance_from(account) ==
    [asset |-> account.currency, free |-> account.available, total |-> account.balance]

\* The side match of impl From<model::Fill> for Trade
Trade_side(side) == IF side = "buy" THEN "Buy" ELSE "Sell"

\* A faulty variant: every liquidity other than "M" taken for a taker fill.
M_Trade_liquidity_taker(liquidity) ==
    CASE liquidity = "M" -> Some("Maker")
      [] OTHER -> Some("Taker")

\* The liquidity match of impl From<model::Fill> for Trade
Trade_liquidity(liquidity) ==
    CASE liquidity = "M" -> Some("Maker")
      [] liquidity = "T" -> Some("Taker")
      [] OTHER -> None

\* impl From<model::Fill> for Trade<Exchange<Coinbase>>
Trade_from(fill) ==
    [id |-> fill.trade_id,
     order_id |-> fill.order_id,
     market_pair |-> fill.product_id,
     price |-> fill.price,
     qty |-> fill.size,
     fees |-> Some(fill.fee),
     side |-> Trade_side(fill.side),
     liquidity |-> Trade_liquidity(fill.liquidity),
     created_at |-> as_u64(fill.created_at)]

\* impl From<model::Ticker> for Ticker
Ticker_from(ticker) == [price |-> ticker.price]

\* impl From<model::Candle> for Candle
Candle_from(candle) ==
    [time |-> candle.time * 1000,
     low |-> candle.low,
     high |-> candle.high,
     open |-> candle.open,
     close |-> candle.close,
     volume |-> candle.volume]

(* ------------------------ request conversions -------------------------- *)

\* impl From<&GetOrderHistoryRequest<Exchange<Coinbase>>> for model::GetOrderRequest
GetOrderRequest_from(r) ==
    [product_id |-> r.market_pair,
     paginator |-> IF r.paginator.tag = "Some"
                   THEN Some(model_Paginator_from(r.paginator.v))
                   ELSE None,
     status |-> None]

\* impl From<&TradeHistoryRequest<Exchange<Coinbase>>> for model::GetFillsReq
GetFillsReq_from(r) ==
    [order_id |-> r.order_id,
     paginator |-> IF r.paginator.tag = "Some"
                   THEN Some(model_Paginator_from(r.paginator.v))
                   ELSE None,
     product_id |-> r.market_pair]

(* ------------------------------- requests ------------------------------ *)

Credentials == [api_key : {"key"}, api_secret : {"secret"}, passphrase : {"phrase"}]
CoinbaseParameters == [sandbox : BOOLEAN, credentials : Option(Credentials)]

\* Outcomes of Transport::new / Transport::with_credential and of refresh_market_info.
TransportOutcomes == {Ok("transport"), Err("ConfigError")}
RefreshOutcomes == {Ok("refreshed")} \cup {Err(e) : e \in AdapterErrors}

Outcomes(S) == {Ok(v) : v \in S} \cup {Err(e) : e \in AdapterErrors}

OrderBookRequests == [market_pair : MarketPairs]
GetPriceTickerRequests == [market_pair : MarketPairs]
GetHistoricRatesRequests ==
    [market_pair : MarketPairs, interval : Interval, paginator : Option(Paginators)]
GetHistoricTradesRequests == [market_pair : MarketPairs, paginator : Option(Paginators)]
OpenLimitOrderRequests == [market_pair : MarketPairs, size : Vals, price : Vals]
OpenMarketOrderRequests == [market_pair : MarketPairs, size : Vals]
CancelOrderRequests == [id : OrderIds, market_pair : Option(MarketPairs)]
CancelAllOrdersRequests == [market_pair : Option(MarketPairs)]
GetOrderHistoryRequests ==
    [market_pair : Option({"BTC-USD"}), paginator : Option(Paginators)]
TradeHistoryRequests ==
    [order_id : Option({"o1"}), market_pair : Option({"BTC-USD"}),
     paginator : Option(Paginators)]
GetOrderRequests == [id : OrderIds]

(* ------------------------------ behaviour ------------------------------ *)

Init ==
    /\ pc = "start"
    /\ inner = None
    /\ op = "none"
    /\ req = None
    /\ calls = <<>>
    /\ native = NoCall
    /\ ret = NoCall

\* ExchangeEssentials::new: both unwrap() calls panic on Err.
new ==
    /\ pc = "start"
    /\ \E parameters \in CoinbaseParameters, t \in TransportOutcomes, r \in RefreshOutcomes :
        LET ctor == IF parameters.credentials.tag = "Some"
                    THEN Call("Transport::with_credential",
                              <<parameters.credentials.v, parameters.sandbox>>)
                    ELSE Call("Transport::new", <<parameters.sandbox>>)
            coinbase == [exchange_info |-> "ExchangeInfo", transport |-> t.val]
        IN /\ op' = "new"
           /\ req' = parameters
           /\ IF t.kind = "Err"
              THEN /\ calls' = <<ctor>>
                   /\ native' = t
                   /\ ret' = Panic
                   /\ pc' = "aborted"
                   /\ inner' = None
              ELSE /\ calls' = <<ctor, Call("refresh_market_info", <<>>)>>
                   /\ native' = r
                   /\ IF r.kind = "Err"
                      THEN ret' = Panic /\ pc' = "aborted" /\ inner' = None
                      ELSE ret' = Value(coinbase) /\ pc' = "ready" /\ inner' = Some(coinbase)

\* One facade invocation on the constructed adapter.
Invoke(name, r, cs, out, result) ==
    /\ pc' = IF result.kind = "Panic" THEN "aborted" ELSE "done"
    /\ op' = name
    /\ req' = r
    /\ calls' = cs
    /\ native' = out
    /\ ret' = result
    /\ UNCHANGED inner

order_book_result(out) == ResultMap(out, [b \in Books |-> OrderBookResponse_from(b)])

order_book ==
    /\ pc = "ready"
    /\ \E r \in OrderBookRequests, out \in Outcomes(Books) :
        Invoke("order_book", r, <<Call("book", <<r.market_pair>>)>>, out,
               order_book_result(out))

get_price_ticker ==
    /\ pc = "ready"
    /\ \E r \in GetPriceTickerRequests, out \in Outcomes(NativeTickers) :
        Invoke("get_price_ticker", r, <<Call("ticker", <<r.market_pair>>)>>, out,
               ResultMap(out, [t \in NativeTickers |-> Ticker_from(t)]))

get_historic_rates ==
    /\ pc = "ready"
    /\ \E r \in GetHistoricRatesRequests :
        LET params == CandleRequestParams_try_from(r) IN
        IF params.kind = "Err"
        THEN Invoke("get_historic_rates", r, <<>>, NoCall, params)
        ELSE \E out \in Outcomes(SeqUpTo(NativeCandles, MaxLen)) :
                Invoke("get_historic_rates", r,
                       <<Call("candles", <<r.market_pair, Some(params.val)>>)>>, out,
                       ResultMap(out, [v \in Seq(NativeCandles) |->
                   VecMap(v, [c \in NativeCandles |-> Candle_from(c)])]))

get_historic_trades ==
    /\ pc = "ready"
    /\ \E r \in GetHistoricTradesRequests :
        Invoke("get_historic_trades", r, <<>>, NoCall, Panic)

\* The Result<model::Order> -> Result<Order<Self>> step shared by the order calls.
order_result(out) == ResultMap(out, [o \in NativeOrders |-> Order_from(o)])

\* The Result<Vec<model::Order>> -> Result<Vec<Order<Self>>> step.
orders_result(out) == ResultMap(out, [v \in Seq(NativeOrders) |->
                   VecMap(v, [o \in NativeOrders |-> Order_from(o)])])

limit_buy ==
    /\ pc = "ready"
    /\ \E r \in OpenLimitOrderRequests, out \in Outcomes(NativeOrders) :
        Invoke("limit_buy", r,
               <<Call("limit_buy", <<r.market_pair, r.size, r.price>>)>>, out,
               order_result(out))

limit_sell ==
    /\ pc = "ready"
    /\ \E r \in OpenLimitOrderRequests, out \in Outcomes(NativeOrders) :
        Invoke("limit_sell", r,
               <<Call("limit_sell", <<r.market_pair, r.size, r.price>>)>>, out,
               order_result(out))

market_buy ==
    /\ pc = "ready"
    /\ \E r \in OpenMarketOrderRequests, out \in Outcomes(NativeOrders) :
        Invoke("market_buy", r,
               <<Call("market_buy", <<r.market_pair, r.size>>)>>, out,
               order_result(out))

market_sell ==
    /\ pc = "ready"
    /\ \E r \in OpenMarketOrderRequests, out \in Outcomes(NativeOrders) :
        Invoke("market_sell", r,
               <<Call("market_sell", <<r.market_pair, r.size>>)>>, out,
               order_result(out))

cancel_order ==
    /\ pc = "ready"
    /\ \E r \in CancelOrderRequests, out \in Outcomes(OrderIds) :
        Invoke("cancel_order", r,
               <<Call("cancel_order", <<r.id, r.market_pair>>)>>, out,
               ResultMap(out, [id \in OrderIds |-> OrderCanceled_from(id)]))

cancel_all_orders ==
    /\ pc = "ready"
    /\ \E r \in CancelAllOrdersRequests, out \in Outcomes(SeqUpTo(OrderIds, MaxLen)) :
        Invoke("cancel_all_orders", r,
               <<Call("cancel_all_orders", <<r.market_pair>>)>>, out,
               ResultMap(out, [v \in Seq(OrderIds) |->
                   VecMap(v, [id \in OrderIds |-> OrderCanceled_from(id)])]))

get_all_open_orders ==
    /\ pc = "ready"
    /\ \E out \in Outcomes(SeqUpTo(NativeOrderSample, MaxLen)) :
        LET params == [status |-> Some("open"), paginator |-> None, product_id |-> None]
        IN Invoke("get_all_open_orders", None,
                  <<Call("get_orders", <<Some(params)>>)>>, out,
                  orders_result(out))

get_order_history ==
    /\ pc = "ready"
    /\ \E r \in GetOrderHistoryRequests, out \in Outcomes(SeqUpTo(NativeOrderSample, MaxLen)) :
        Invoke("get_order_history", r,
               <<Call("get_orders", <<Some(GetOrderRequest_from(r))>>)>>, out,
               orders_result(out))

get_trade_history ==
    /\ pc = "ready"
    /\ \E r \in TradeHistoryRequests, out \in Outcomes(SeqUpTo(NativeFills, MaxLen)) :
        Invoke("get_trade_history", r,
               <<Call("get_fills", <<Some(GetFillsReq_from(r))>>)>>, out,
               ResultMap(out, [v \in Seq(NativeFills) |->
                   VecMap(v, [f \in NativeFills |-> Trade_from(f)])]))

get_account_balances ==
    /\ pc = "ready"
    /\ \E paginator \in Option(Paginators), out \in Outcomes(SeqUpTo(NativeAccounts, MaxLen)) :
        LET p == IF paginator.tag = "Some"
                 THEN Some(model_Paginator_from_ref(paginator.v))
                 ELSE None
        IN Invoke("get_account_balances", paginator,
                  <<Call("get_account", <<p>>)>>, out,
                  ResultMap(out, [v \in Seq(NativeAccounts) |->
                   VecMap(v, [a \in NativeAccounts |-> Balance_from(a)])]))

\* A faulty variant: a failed adapter call is tried once more.
M_get_order_retry ==
    /\ pc = "ready"
    /\ \E r \in GetOrderRequests, first \in Outcomes(NativeOrders),
          out \in Outcomes(NativeOrders) :
        LET c == Call("get_order", <<r.id>>) IN
        IF first.kind = "Err"
        THEN Invoke("get_order", r, <<c, c>>, out, order_result(out))
        ELSE Invoke("get_order", r, <<c>>, first, order_result(first))

get_order ==
    /\ pc = "ready"
    /\ \E r \in GetOrderRequests, out \in Outcomes(NativeOrders) :
        Invoke("get_order", r, <<Call("get_order", <<r.id>>)>>, out,
               order_result(out))

Next ==
    \/ new
    \/ order_book
    \/ get_price_ticker
    \/ get_historic_rates
    \/ get_historic_trades
    \/ limit_buy
    \/ limit_sell
    \/ market_buy
    \/ market_sell
    \/ cancel_order
    \/ cancel_all_orders
    \/ get_all_open_orders
    \/ get_order_history
    \/ get_trade_history
    \/ get_account_balances
    \/ get_order

Spec == Init /\ [][Next]_vars

(* ------------------------------- claims -------------------------------- *)

\* The granularity handed to the adapter's candles call of this invocation.
PassedGranularity == calls[1].args[2].v.granularity

\* The granularity the interval table of the claim gives.
TableGranularity(i) ==
    CASE i = "OneMinute" -> 60
      [] i = "FiveMinutes" -> 300
      [] i = "FifteenMinutes" -> 900
      [] i = "OneHour" -> 3600
      [] i = "SixHours" -> 21600
      [] i = "OneDay" -> 86400

\* C1: the interval conversion gives OneMinute -> 60, FiveMinutes -> 300,
\* FifteenMinutes -> 900, OneHour -> 3600, SixHours -> 21600, OneDay -> 86400, and
\* fails with MissingParameter for every other interval (no default granularity).
C1_IntervalConversion ==
    op = "get_historic_rates" =>
        IF req.interval \in {"OneMinute", "FiveMinutes", "FifteenMinutes",
                             "OneHour", "SixHours", "OneDay"}
        THEN /\ Len(calls) = 1
             /\ PassedGranularity = Some(TableGranularity(req.interval))
        ELSE /\ ret.kind = "Err"
             /\ ret.err = "MissingParameter"
             /\ calls = <<>>

C1_Witness ==
    /\ op = "get_historic_rates"
    /\ req.interval = "SixHours"
    /\ Len(calls) = 1
    /\ PassedGranularity = Some(21600)

\* C2: a get_historic_rates request with an interval Coinbase does not support
\* returns MissingParameter without the candles call being issued; with a supported
\* interval the candles call is issued, with granularity Some(converted value).
C2_UnsupportedIntervalNoCall ==
    op = "get_historic_rates" =>
        LET g == u32_try_from_Interval(req.interval) IN
        /\ g.kind = "Err" =>
              /\ ret.kind = "Err" /\ ret.err = "MissingParameter"
              /\ calls = <<>>
              /\ native = NoCall
        /\ g.kind = "Ok" =>
              /\ Len(calls) = 1
              /\ calls[1].fn = "candles"
              /\ calls[1].args[1] = req.market_pair
              /\ PassedGranularity = Some(g.val)

C2_Witness ==
    /\ op = "get_historic_rates"
    /\ req.interval = "ThreeMinutes"
    /\ ret.kind = "Err"
    /\ calls = <<>>

\* The domain statuses.
DomainOrderStatus == {"Active", "Filled", "Open", "Pending", "Rejected", "Canceled"}

\* The one domain status each native status stands for.
TableStatus(s) ==
    CASE s = "Active" -> "Active"
      [] s = "Done" -> "Filled"
      [] s = "Open" -> "Open"
      [] s = "Pending" -> "Pending"
      [] s = "Rejected" -> "Rejected"

SingleOrderOps == {"limit_buy", "limit_sell", "market_buy", "market_sell", "get_order"}
OrderListOps == {"get_all_open_orders", "get_order_history"}

\* C3: every native order status is mapped to exactly one domain status of
\* {Active, Filled, Open, Pending, Rejected, Canceled}, its own and no default.
C3_OrderStatusMapping ==
    /\ (op \in SingleOrderOps /\ native.kind = "Ok") =>
          /\ ret.kind = "Ok"
          /\ ret.val.status \in DomainOrderStatus
          /\ ret.val.status = TableStatus(native.val.status)
    /\ (op \in OrderListOps /\ native.kind = "Ok") =>
          /\ ret.kind = "Ok"
          /\ \A i \in 1..Len(native.val) :
                /\ ret.val[i].status \in DomainOrderStatus
                /\ ret.val[i].status = TableStatus(native.val[i].status)

C3_Witness ==
    /\ op = "get_order"
    /\ native.kind = "Ok"
    /\ native.val.status = "Done"
    /\ ret.kind = "Ok"
    /\ ret.val.status = "Filled"

\* C4: get_historic_trades on the Coinbase facade returns the typed error
\* UnsupportedOperation, and does not abort.
C4_UnsupportedOperationReturned ==
    op = "get_historic_trades" =>
        /\ pc # "aborted"
        /\ ret.kind = "Err"
        /\ ret.err = "UnsupportedOperation"

\* C5: construction returns a discriminated result: when the transport cannot be
\* built or the initial refresh fails it returns a typed error and does not abort,
\* and no adapter is returned whose initial refresh did not succeed.
C5_ConstructionReturnsTypedError ==
    op = "new" =>
        /\ pc # "aborted"
        /\ native.kind = "Err" => ret.kind = "Err"
        /\ ret.kind \in {"Ok", "Value"} =>
              /\ Len(calls) = 2
              /\ calls[2].fn = "refresh_market_info"
              /\ native.kind = "Ok"

\* C6: in the fill conversion "buy" gives Buy, "sell" gives Sell, and a fill with
\* any other side makes the call fail with a typed error.
C6_FillSideExplicit ==
    (op = "get_trade_history" /\ native.kind = "Ok") =>
        IF \A i \in 1..Len(native.val) : native.val[i].side \in {"buy", "sell"}
        THEN /\ ret.kind = "Ok"
             /\ \A i \in 1..Len(native.val) :
                   ret.val[i].side = IF native.val[i].side = "buy" THEN "Buy" ELSE "Sell"
        ELSE ret.kind = "Err"

\* C7: in the fill conversion liquidity "M" gives Some(Maker), "T" gives
\* Some(Taker), anything else None, whatever the other fields of the fill, and the
\* conversion does not fail.
C7_FillLiquidity ==
    (op = "get_trade_history" /\ native.kind = "Ok") =>
        /\ ret.kind = "Ok"
        /\ Len(ret.val) = Len(native.val)
        /\ \A i \in 1..Len(native.val) :
              ret.val[i].liquidity =
                  CASE native.val[i].liquidity = "M" -> Some("Maker")
                    [] native.val[i].liquidity = "T" -> Some("Taker")
                    [] OTHER -> None

C7_Witness ==
    /\ op = "get_trade_history"
    /\ native.kind = "Ok"
    /\ Len(native.val) = 2
    /\ native.val[1].liquidity = "M" /\ native.val[1].side = "hold"
    /\ native.val[2].liquidity = "X" /\ native.val[2].side = "buy"
    /\ ret.kind = "Ok"
    /\ ret.val[1].liquidity = Some("Maker")
    /\ ret.val[2].liquidity = None

\* The native pagination token handed to the adapter call of this invocation.
PassedToken ==
    IF op = "get_account_balances" THEN calls[1].args[1] ELSE calls[1].args[1].v.paginator

\* The domain paginator of the request, if any.
RequestPaginator == IF op = "get_account_balances" THEN req ELSE req.paginator

\* The before, after and limit read back from a native token.
TokenFields(tok) == [before |-> tok.before, after |-> tok.after, limit |-> tok.limit]

C9_OrderBook ==
    (op = "order_book" /\ native.kind = "Ok") =>
        /\ ret.kind = "Ok"
        /\ ret.val.last_update_id = None
        /\ Len(ret.val.bids) = Len(native.val.bids)
        /\ Len(ret.val.asks) = Len(native.val.asks)
        /\ \A i \in 1..Len(native.val.bids) :
              /\ ret.val.bids[i].price = native.val.bids[i].price
              /\ ret.val.bids[i].qty = native.val.bids[i].size
        /\ \A i \in 1..Len(native.val.asks) :
              /\ ret.val.asks[i].price = native.val.asks[i].price
              /\ ret.val.asks[i].qty = native.val.asks[i].size

C9_Witness ==
    /\ op = "order_book"
    /\ native.kind = "Ok"
    /\ Len(native.val.bids) = 2
    /\ Len(native.val.asks) = 1
    /\ native.val.bids[1] # native.val.bids[2]
    /\ native.val.asks[1] # native.val.bids[1]
    /\ ret.kind = "Ok"
    /\ Len(ret.val.bids) = 2

ImplementedOps ==
    {"order_book", "get_price_ticker", "get_historic_rates", "limit_buy", "limit_sell",
     "market_buy", "market_sell", "cancel_order", "cancel_all_orders",
     "get_all_open_orders", "get_order_history", "get_trade_history",
     "get_account_balances", "get_order"}

ListOps ==
    {"get_historic_rates", "cancel_all_orders", "get_all_open_orders",
     "get_order_history", "get_trade_history", "get_account_balances"}

\* The domain value a native value of this invocation's result converts to.
Converted(x) ==
    CASE op = "order_book" -> OrderBookResponse_from(x)
      [] op = "get_price_ticker" -> Ticker_from(x)
      [] op = "get_historic_rates" -> Candle_from(x)
      [] op \in {"cancel_order", "cancel_all_orders"} -> OrderCanceled_from(x)
      [] op = "get_trade_history" -> Trade_from(x)
      [] op = "get_account_balances" -> Balance_from(x)
      [] OTHER -> Order_from(x)

\* C10: an implemented facade method issues at most one adapter call per
\* invocation, exactly one when the request converts; an error of that call is
\* returned unchanged, a success is returned converted, a list keeping its length
\* and order.
C10_OneCallSameError ==
    op \in ImplementedOps =>
        /\ Len(calls) <= 1
        /\ (op = "get_historic_rates" => req.interval \in SupportedIntervals)
              => Len(calls) = 1
        /\ calls = <<>> => (native = NoCall /\ ret.kind = "Err")
        /\ Len(calls) = 1 =>
              /\ native.kind \in {"Ok", "Err"}
              /\ native.kind = "Err" => ret = native
              /\ native.kind = "Ok" =>
                    /\ ret.kind = "Ok"
                    /\ IF op \in ListOps
                       THEN /\ Len(ret.val) = Len(native.val)
                            /\ \A i \in 1..Len(native.val) :
                                  ret.val[i] = Converted(native.val[i])
                       ELSE ret.val = Converted(native.val)

C10_Witness ==
    /\ op = "get_order_history"
    /\ Len(calls) = 1
    /\ native.kind = "Ok"
    /\ Len(native.val) = 2
    /\ native.val[1] # native.val[2]
    /\ ret.kind = "Ok"
    /\ Len(ret.val) = 2
    /\ ret.val[1] # ret.val[2]

====
